---- MODULE Spec2Model ----
(***************************************************************************)
(* Model of the search-and-list state controller of hacker-stories         *)
(* (src/src/App.tsx, last snapshot, lines 379-842): the stories reducer,   *)
(* the URL builder and its inverse, the search history, the persistent     *)
(* search term, the fetch lifecycle of the App component and the sort view *)
(* of the List component; and of the App of the fetch()-based snapshot     *)
(* (src/src/App.js, lines 448-656) with its reducer.                       *)
(*                                                                         *)
(* JavaScript strings are modelled as sequences of one-character strings,  *)
(* so that getUrl and extractSearchTerm are computed character by          *)
(* character as the code computes them.                                    *)
(***************************************************************************)
EXTENDS Integers, Sequences, FiniteSets, TLC

VARIABLES
    call,          \* a pure function under check: its inputs and its result
    urls,          \* App: const [urls, setUrls] = React.useState(...)
    lastSearches,  \* App: const lastSearches = getLastSearches(urls)
    searchTerm,    \* App: the value of useSemiPersistentState('search', ...)
    stories,       \* App: the state held by React.useReducer(storiesReducer, ...)
    requests,      \* App: the status of the axios.get issued for each entry of urls
    dismissals,    \* the number of stories dismissed so far
    trace,         \* the most recent dispatches to storiesReducer, newest first:
                   \* each the action and the stories state it was applied to
    run,           \* the current run of REMOVE_STORY dispatches: the data it
                   \* started from and the objectIDs removed so far
    list,          \* List: the array passed as the list prop
    sort,          \* List: const [sort, setSort] = React.useState(...)
    sortedList,    \* List: const sortedList = ...
    localStorage,  \* the browser's string store: the keys it holds and their values
    isMounted      \* useSemiPersistentState: isMounted.current

vars == <<call, urls, lastSearches, searchTerm, stories, requests, dismissals,
          trace, run, list, sort, sortedList, localStorage, isMounted>>

hookVars == <<localStorage, isMounted>>

----------------------------------------------------------------------------
(* JavaScript string primitives *)

Digits == <<"0", "1", "2", "3", "4", "5", "6", "7", "8", "9">>

\* String(n) for an integer n >= 0, as the template literal formats a page.
RECURSIVE NumToStr(_)
NumToStr(n) ==
    IF n < 10 THEN <<Digits[n + 1]>>
    ELSE NumToStr(n \div 10) \o <<Digits[(n % 10) + 1]>>

\* s.lastIndexOf(c) searching backwards from the 1-based position from.
RECURSIVE LastIndexFrom(_, _, _)
LastIndexFrom(s, c, from) ==
    IF from = 0 THEN -1
    ELSE IF s[from] = c THEN from - 1
    ELSE LastIndexFrom(s, c, from - 1)

\* s.lastIndexOf(c): the 0-based index of the last c in s, or -1.
LastIndexOf(s, c) == LastIndexFrom(s, c, Len(s))

Clamp(n, lo, hi) == IF n < lo THEN lo ELSE IF n > hi THEN hi ELSE n

\* s.substring(start, end): both clamped to 0..length, swapped when start > end.
Substring(s, start, end) ==
    LET a == Clamp(start, 0, Len(s))
        b == Clamp(end, 0, Len(s))
        lo == IF a <= b THEN a ELSE b
        hi == IF a <= b THEN b ELSE a
    IN  [i \in 1..(hi - lo) |-> s[lo + i]]

\* Does pat occur in s at the 1-based position i?
OccursAt(s, pat, i) == \A k \in 1..Len(pat) : s[i + k - 1] = pat[k]

\* The 1-based position of the first occurrence of pat in s at or after i,
\* or 0 when there is none.
RECURSIVE IndexFrom(_, _, _)
IndexFrom(s, pat, i) ==
    IF i + Len(pat) - 1 > Len(s) THEN 0
    ELSE IF OccursAt(s, pat, i) THEN i
    ELSE IndexFrom(s, pat, i + 1)

\* s.replace(pat, rep) with a string pattern: only the first occurrence.
Replace(s, pat, rep) ==
    LET i == IndexFrom(s, pat, 1)
    IN  IF i = 0 THEN s
        ELSE SubSeq(s, 1, i - 1) \o rep \o SubSeq(s, i + Len(pat), Len(s))

\* array.slice(start, end) with negative indexes counted from the end.
Slice(arr, start, end) ==
    LET rel(k) == IF k < 0 THEN Clamp(Len(arr) + k, 0, Len(arr))
                  ELSE Clamp(k, 0, Len(arr))
        lo == rel(start)
        hi == rel(end)
    IN  IF hi <= lo THEN <<>> ELSE [i \in 1..(hi - lo) |-> arr[lo + i]]

\* array.slice(start): to the end of the array.
SliceFrom(arr, start) == Slice(arr, start, Len(arr))

----------------------------------------------------------------------------
(* The URL builder and its inverse *)

API_BASE ==
    <<"h","t","t","p","s",":","/","/","h","n",".","a","l","g","o","l","i","a",
      ".","c","o","m","/","a","p","i","/","v","1">>
API_SEARCH == <<"/","s","e","a","r","c","h">>
PARAM_SEARCH == <<"q","u","e","r","y","=">>
PARAM_PAGE == <<"p","a","g","e","=">>

getUrl(term, page) ==
    API_BASE \o API_SEARCH \o <<"?">> \o PARAM_SEARCH \o term
        \o <<"&">> \o PARAM_PAGE \o NumToStr(page)

\* extractSearchTerm starting at the last '?' itself instead of after it
extractSearchTermFromMark(url) ==
    Replace(Substring(url, LastIndexOf(url, "?"), LastIndexOf(url, "&")),
            PARAM_SEARCH, <<>>)

extractSearchTerm(url) ==
    Replace(Substring(url, LastIndexOf(url, "?") + 1, LastIndexOf(url, "&")),
            PARAM_SEARCH, <<>>)

----------------------------------------------------------------------------
(* The search history *)

HistoryWindow == 6

\* The reducer callback without the comparison with the previous term
lastSearchesStepKeepAll(result, url, index) ==
    Append(result, extractSearchTerm(url))

\* The reducer callback of getLastSearches: one step of urls.reduce(...).
lastSearchesStep(result, url, index) ==
    LET term == extractSearchTerm(url)
    IN  IF index = 0 THEN Append(result, term)
        ELSE IF Len(result) > 0 /\ term = result[Len(result)] THEN result
        ELSE Append(result, term)

RECURSIVE lastSearchesReduce(_, _, _)
lastSearchesReduce(result, us, index) ==
    IF index >= Len(us) THEN result
    ELSE lastSearchesReduce(lastSearchesStep(result, us[index + 1], index),
                            us, index + 1)

\* getLastSearches without the final slice(0, -1): the current term stays
getLastSearchesWithCurrent(us) ==
    SliceFrom(lastSearchesReduce(<<>>, us, 0), -HistoryWindow)

getLastSearches(us) ==
    Slice(SliceFrom(lastSearchesReduce(<<>>, us, 0), -HistoryWindow), 0, -1)

----------------------------------------------------------------------------
(* Stories.  The url field of a Story is only rendered, never read by the  *)
(* controller, and is left out.                                            *)

Story(id, title, author, comments, points) ==
    [objectID |-> id, title |-> title, author |-> author,
     num_comments |-> comments, points |-> points]

StoryA == Story("1", <<"a", "b">>, <<"z">>, 1, 2)
StoryB == Story("2", <<"a">>, <<"y">>, 2, 2)
StoryC == Story("3", <<"B">>, <<"y">>, 0, 5)
\* a second record carrying the objectID of StoryA
StoryD == Story("1", <<"a", "b">>, <<"x">>, 2, 7)

StoryPool == {StoryA, StoryB, StoryC, StoryD}

----------------------------------------------------------------------------
(* The stories reducer *)

removeStory == "REMOVE_STORY"
fetchInit == "STORIES_FETCH_INIT"
fetchSuccess == "STORIES_FETCH_SUCCESS"
fetchFailure == "STORIES_FETCH_FAILURE"

\* The outcome of the default branch: throw new Error().
Thrown == [thrown |-> TRUE]

\* case fetchInit without isError: false (the flag of an earlier failure stays)
fetchInitCaseKeepsError(state) ==
    [state EXCEPT !.isLoading = TRUE]

\* case fetchInit that also rewinds the pagination cursor
fetchInitCaseResetsPage(state) ==
    [state EXCEPT !.isLoading = TRUE, !.isError = FALSE, !.page = 0]

\* case fetchInit
fetchInitCase(state) ==
    [state EXCEPT !.isLoading = TRUE, !.isError = FALSE]

\* case fetchSuccess: the data of the next state, as the earlier snapshots
\* of the reducer compute it (data: action.payload).
successDataReplace(state, action) == action.payload

\* case fetchSuccess: the data of the next state.
successData(state, action) ==
    IF action.page = 0 THEN action.payload ELSE state.data \o action.payload

\* case fetchSuccess without isLoading: false
fetchSuccessCaseStaysLoading(state, action) ==
    [state EXCEPT !.isError = FALSE,
                  !.data = successData(state, action),
                  !.page = action.page]

\* case fetchSuccess
fetchSuccessCase(state, action) ==
    [state EXCEPT !.isLoading = FALSE, !.isError = FALSE,
                  !.data = successData(state, action),
                  !.page = action.page]

\* case fetchFailure that also drops the data
fetchFailureCaseDropsData(state) ==
    [state EXCEPT !.isLoading = FALSE, !.isError = TRUE, !.data = <<>>]

\* case fetchFailure
fetchFailureCase(state) ==
    [state EXCEPT !.isLoading = FALSE, !.isError = TRUE]

\* case removeStory filtering by identity of the story instead of its objectID
removeDataByIdentity(state, action) ==
    SelectSeq(state.data, LAMBDA story : action.payload /= story)

\* case removeStory that returns the remaining stories newest first
removeDataNewestFirst(state, action) ==
    LET kept == SelectSeq(state.data,
                          LAMBDA story : action.payload.objectID /= story.objectID)
    IN [i \in 1..Len(kept) |-> kept[Len(kept) + 1 - i]]

\* case removeStory: the data of the next state.
removeData(state, action) ==
    SelectSeq(state.data, LAMBDA story : action.payload.objectID /= story.objectID)

\* case removeStory
removeStoryCase(state, action) ==
    [state EXCEPT !.data = removeData(state, action)]

storiesReducer(state, action) ==
    CASE action.type = fetchInit -> fetchInitCase(state)
      [] action.type = fetchSuccess -> fetchSuccessCase(state, action)
      [] action.type = fetchFailure -> fetchFailureCase(state)
      [] action.type = removeStory -> removeStoryCase(state, action)
      [] OTHER -> Thrown

\* The initial state given to React.useReducer.
InitialStories == [data |-> <<>>, page |-> 0, isLoading |-> FALSE, isError |-> FALSE]

FetchInitAction == [type |-> fetchInit]
FetchSuccessAction(payload, page) ==
    [type |-> fetchSuccess, payload |-> payload, page |-> page]
FetchFailureAction == [type |-> fetchFailure]
RemoveAction(item) == [type |-> removeStory, payload |-> item]

\* The run of consecutive REMOVE_STORY dispatches after dispatching action.
RunAfter(action) ==
    IF action.type = removeStory
    THEN [orig |-> run.orig, removed |-> run.removed \cup {action.payload.objectID}]
    ELSE [orig |-> storiesReducer(stories, action).data, removed |-> {}]

\* dispatchStories(action): the reducer is applied to the current state.
dispatchStories(action) == stories' = storiesReducer(stories, action)

\* A dispatch recorded in the trace, which keeps the last two dispatches.
Dispatch(action) ==
    /\ dispatchStories(action)
    /\ trace' = SubSeq(<<[state |-> stories, action |-> action]>> \o trace, 1,
                       IF Len(trace) = 0 THEN 1 ELSE 2)
    /\ run' = RunAfter(action)

----------------------------------------------------------------------------
(* The sort view of the List component *)

\* The UTF-16 code units of the characters used in titles and authors.
CharCode ==
    [c \in {"B", "a", "b", "x", "y", "z"} |->
        CASE c = "B" -> 66
          [] c = "a" -> 97
          [] c = "b" -> 98
          [] c = "x" -> 120
          [] c = "y" -> 121
          [] c = "z" -> 122]

\* a < b on JavaScript strings: by code unit, a proper prefix first.
StrLess(a, b) ==
    LET n == IF Len(a) < Len(b) THEN Len(a) ELSE Len(b)
        diff == {i \in 1..n : a[i] /= b[i]}
    IN  IF diff = {} THEN Len(a) < Len(b)
        ELSE LET i == CHOOSE x \in diff : \A y \in diff : x <= y
             IN  CharCode[a[i]] < CharCode[b[i]]

NumericFields == {"num_comments", "points"}

\* lodash compareAscending on the values of one field: is a before b?
KeyLess(a, b, field) ==
    IF field \in NumericFields THEN a < b ELSE StrLess(a, b)

\* array.reverse(), as the sequence the array holds afterwards.
Reverse(arr) == [i \in 1..Len(arr) |-> arr[Len(arr) + 1 - i]]

\* The element put in front of the elements equal to it: a sort that is not
\* stable
InsertBeforeEqual(sorted, x, field) ==
    LET before == Cardinality({i \in 1..Len(sorted) :
                                  KeyLess(sorted[i][field], x[field], field)})
    IN  SubSeq(sorted, 1, before) \o <<x>> \o SubSeq(sorted, before + 1, Len(sorted))

\* One element put into an ascending array behind the elements that do not
\* come after it: lodash sortBy is stable.
InsertByKey(sorted, x, field) ==
    LET before == Cardinality({i \in 1..Len(sorted) :
                                  ~KeyLess(x[field], sorted[i][field], field)})
    IN  SubSeq(sorted, 1, before) \o <<x>> \o SubSeq(sorted, before + 1, Len(sorted))

\* lodash sortBy(list, field): a new array, ascending by the field, stable.
RECURSIVE sortBy(_, _)
sortBy(arr, field) ==
    IF arr = <<>> THEN <<>>
    ELSE InsertByKey(sortBy(SubSeq(arr, 1, Len(arr) - 1), field), arr[Len(arr)], field)

SortKeys == {"NONE", "TITLE", "AUTHOR", "COMMENT", "POINT"}

\* SORTS without the reverse() of COMMENT and POINT
SORTSAllAscending(sortKey, arr) ==
    CASE sortKey = "NONE" -> [array |-> arr, fresh |-> FALSE]
      [] sortKey = "TITLE" -> [array |-> sortBy(arr, "title"), fresh |-> TRUE]
      [] sortKey = "AUTHOR" -> [array |-> sortBy(arr, "author"), fresh |-> TRUE]
      [] sortKey = "COMMENT" -> [array |-> sortBy(arr, "num_comments"), fresh |-> TRUE]
      [] sortKey = "POINT" -> [array |-> sortBy(arr, "points"), fresh |-> TRUE]

\* SORTS[sortKey](list): the array returned, and whether it is a new array
\* (fresh) or the argument itself.
SORTS(sortKey, arr) ==
    CASE sortKey = "NONE" -> [array |-> arr, fresh |-> FALSE]
      [] sortKey = "TITLE" -> [array |-> sortBy(arr, "title"), fresh |-> TRUE]
      [] sortKey = "AUTHOR" -> [array |-> sortBy(arr, "author"), fresh |-> TRUE]
      [] sortKey = "COMMENT" ->
            [array |-> Reverse(sortBy(arr, "num_comments")), fresh |-> TRUE]
      [] sortKey = "POINT" ->
            [array |-> Reverse(sortBy(arr, "points")), fresh |-> TRUE]

\* const sortedList = sort.isReverse ? sortFunction(list).reverse()
\*                                    : sortFunction(list);
\* reverse() works in place on the array sortFunction returned.
sortedListOf(state, arr) ==
    LET sorted == SORTS(state.sortKey, arr)
    IN  IF state.isReverse THEN Reverse(sorted.array) ELSE sorted.array

\* The list prop after sortedList was computed: reversed in place when the
\* array reverse() was called on is the prop itself.
listAfterSort(state, arr) ==
    LET sorted == SORTS(state.sortKey, arr)
    IN  IF state.isReverse /\ ~sorted.fresh THEN Reverse(arr) ELSE arr

\* One render of List: sortedList is computed from the list prop.
RenderList ==
    /\ sortedList' = sortedListOf(sort, list)
    /\ list' = listAfterSort(sort, list)

----------------------------------------------------------------------------
(* useSemiPersistentState over the browser's localStorage.  The store is   *)
(* a function from the keys it holds to their string values.               *)

EmptyStore == [k \in {} |-> <<>>]

\* localStorage.getItem(key): the stored string, or null when the key is
\* absent.
getItem(store, key) ==
    IF key \in DOMAIN store
    THEN [isNull |-> FALSE, value |-> store[key]]
    ELSE [isNull |-> TRUE]

\* localStorage.setItem(key, value)
setItem(store, key, value) ==
    [k \in DOMAIN store \cup {key} |-> IF k = key THEN value ELSE store[k]]

\* item || initialState, where only null stands for an absent key
stateOfStoredOrDefault(item, initialState) ==
    IF item.isNull THEN initialState ELSE item.value

\* item || initialState: null and the empty string are falsy.
initialStateOf(item, initialState) ==
    IF item.isNull \/ item.value = <<>> THEN initialState ELSE item.value

\* The key App passes to useSemiPersistentState.
SearchKey == "search"

\* The effect without the isMounted guard: it writes after every render
\* that changed the value, the first one included
persistEffectUnguarded(value) ==
    /\ localStorage' = setItem(localStorage, SearchKey, value)
    /\ isMounted' = TRUE

\* The effect of useSemiPersistentState, run after the first render and
\* after every render in which value (or key) differs from the render
\* before.
persistEffect(value) ==
    IF ~isMounted
    THEN isMounted' = TRUE /\ UNCHANGED localStorage
    ELSE localStorage' = setItem(localStorage, SearchKey, value) /\ UNCHANGED isMounted

\* setValue(newValue) and the render it causes: React renders again, and
\* runs the effect, only when the new value differs from the current one.
setSearchTerm(newValue) ==
    /\ searchTerm' = newValue
    /\ IF newValue /= searchTerm THEN persistEffect(newValue) ELSE UNCHANGED hookVars

----------------------------------------------------------------------------
(* Values of the variables a specification does not use *)

NoCall == [fn |-> "none"]
NoRun == [orig |-> <<>>, removed |-> {}]
InitialSort == [sortKey |-> "NONE", isReverse |-> FALSE]

appVars == <<urls, lastSearches, searchTerm, requests, dismissals>>
reducerVars == <<stories, trace, run>>
listVars == <<list, sort, sortedList>>

AppIdle ==
    /\ urls = <<>>
    /\ lastSearches = <<>>
    /\ searchTerm = <<>>
    /\ requests = <<>>
    /\ dismissals = 0
ReducerIdle == stories = InitialStories /\ trace = <<>> /\ run = NoRun
ListIdle == list = <<>> /\ sort = InitialSort /\ sortedList = <<>>
HookIdle == localStorage = EmptyStore /\ isMounted = FALSE

----------------------------------------------------------------------------
(* The remote search service.  It is not part of the repository: a request *)
(* GET {base}/search?query={term}&page={n} is answered with the hits of    *)
(* that term and page and with the page index asked for.  The query string *)
(* is read the way an HTTP server reads it: it starts behind the first     *)
(* '?', its parameters are separated by '&', a parameter's value starts    *)
(* behind its first '='.                                                   *)

\* The 1-based position of the first c in s at or after i, or 0.
RECURSIVE IndexOfFrom(_, _, _)
IndexOfFrom(s, c, i) ==
    IF i > Len(s) THEN 0
    ELSE IF s[i] = c THEN i
    ELSE IndexOfFrom(s, c, i + 1)

\* s.split(c)
RECURSIVE Split(_, _)
Split(s, c) ==
    LET i == IndexOfFrom(s, c, 1)
    IN  IF i = 0 THEN <<s>>
        ELSE <<SubSeq(s, 1, i - 1)>> \o Split(SubSeq(s, i + 1, Len(s)), c)

\* The value of the first parameter called name (given with its '='), or
\* the empty string.
RECURSIVE ParamValue(_, _)
ParamValue(params, name) ==
    IF params = <<>> THEN <<>>
    ELSE IF Len(params[1]) >= Len(name) /\ OccursAt(params[1], name, 1)
         THEN SubSeq(params[1], Len(name) + 1, Len(params[1]))
    ELSE ParamValue(Tail(params), name)

\* The number a string of decimal digits stands for.
RECURSIVE StrToNum(_)
StrToNum(s) ==
    IF s = <<>> THEN 0
    ELSE 10 * StrToNum(SubSeq(s, 1, Len(s) - 1))
         + (CHOOSE d \in 0..9 : Digits[d + 1] = s[Len(s)])

\* The parameters of the query string of a URL.
QueryParams(url) ==
    LET mark == IndexOfFrom(url, "?", 1)
    IN  IF mark = 0 THEN <<>> ELSE Split(SubSeq(url, mark + 1, Len(url)), "&")

RequestedTerm(url) == ParamValue(QueryParams(url), PARAM_SEARCH)
RequestedPage(url) == StrToNum(ParamValue(QueryParams(url), PARAM_PAGE))

\* The hits of one page of one term: one story, its objectID unlike that of
\* any other term or page.
HitsOf(term, page) ==
    <<Story(term \o <<"#">> \o NumToStr(page), term, <<"x">>, page, page)>>

\* The JSON body the service answers a request for url with.
AnswerTo(url) ==
    [hits |-> HitsOf(RequestedTerm(url), RequestedPage(url)),
     page |-> RequestedPage(url)]

----------------------------------------------------------------------------
(* Spec: the App component.  urls[i] is the URL of the i-th request and    *)
(* requests[i] its status; the effect that runs handleFetchStories follows *)
(* every change of urls before the next event is handled, and is part of   *)
(* the action that changes urls.  Each handler that appends a URL takes    *)
(* the bound on the length of the history as its parameter.                *)

MaxUrls == 3
MaxDismissals == 1
MaxPagingUrls == 5

DefaultTerm == <<"R", "e", "a", "c", "t">>

\* What the user types into the search field.
TypedTerms == {<<>>, <<"a">>}

\* A term that holds the character getUrl leaves unescaped.
MarkTerm == <<"?">>

\* What the user types when the mark is among it.
AnyTerms == TypedTerms \cup {MarkTerm}

\* The URLs the App can ask for within the bounds, and the answer of the
\* service to each of them.
RequestUrls ==
    {getUrl(term, page) : term \in {DefaultTerm} \cup AnyTerms,
                          page \in 0..(MaxUrls + MaxPagingUrls)}

Answers == [url \in RequestUrls |-> AnswerTo(url)]

\* result.data of the response to axios.get(url).
ResponseTo(url) == Answers[url]

\* handleFetchStories up to its await: FETCH_INIT is dispatched and the
\* request for the last URL is sent.
FetchStories ==
    /\ dispatchStories(FetchInitAction)
    /\ requests' = Append(requests, "pending")

\* handleSearch that sets urls to the new URL alone
handleSearchForgetsHistory(term, page) ==
    /\ urls' = <<getUrl(term, page)>>
    /\ lastSearches' = getLastSearches(urls')
    /\ dispatchStories(FetchInitAction)
    /\ requests' = <<"pending">>

\* handleSearch whose effect runs only when the URL appended differs from
\* the last one
handleSearchOnNewUrl(term, page) ==
    /\ urls' = Append(urls, getUrl(term, page))
    /\ lastSearches' = getLastSearches(urls')
    /\ IF getUrl(term, page) /= urls[Len(urls)]
       THEN FetchStories
       ELSE UNCHANGED <<stories, requests>>

\* handleSearch(term, page) followed by the effect of the changed urls.
handleSearch(term, page) ==
    /\ urls' = Append(urls, getUrl(term, page))
    /\ lastSearches' = getLastSearches(urls')
    /\ FetchStories

\* The state of the first render, in a browser whose store is empty.
Init ==
    /\ localStorage = EmptyStore
    /\ isMounted = FALSE
    /\ searchTerm = initialStateOf(getItem(localStorage, SearchKey), DefaultTerm)
    /\ urls = <<getUrl(searchTerm, 0)>>
    /\ lastSearches = getLastSearches(urls)
    /\ requests = <<>>
    /\ dismissals = 0
    /\ ReducerIdle
    /\ ListIdle
    /\ call = NoCall

\* The effects of the first render: that of useSemiPersistentState, then
\* handleFetchStories for the initial URL.
Mount ==
    /\ requests = <<>>
    /\ persistEffect(searchTerm)
    /\ FetchStories
    /\ UNCHANGED <<urls, lastSearches, searchTerm, dismissals, trace, run, call, listVars>>

Mounted == requests /= <<>>

\* handleSearchInput for an event whose target.value is one of values.
handleSearchInputOf(values) ==
    \E value \in values :
        /\ Mounted
        /\ setSearchTerm(value)
        /\ UNCHANGED <<urls, lastSearches, requests, dismissals, reducerVars, call, listVars>>

handleSearchInput == handleSearchInputOf(TypedTerms)

\* The submit button is disabled while the search term is empty.
handleSearchSubmit(bound) ==
    /\ Mounted
    /\ Len(urls) < bound
    /\ searchTerm /= <<>>
    /\ handleSearch(searchTerm, 0)
    /\ UNCHANGED <<hookVars, searchTerm, dismissals, trace, run, call, listVars>>

\* One of the buttons of LastSearches.
handleLastSearch(bound) ==
    \E i \in 1..Len(lastSearches) :
        /\ Mounted
        /\ Len(urls) < bound
        /\ setSearchTerm(lastSearches[i])
        /\ handleSearch(lastSearches[i], 0)
        /\ UNCHANGED <<dismissals, trace, run, call, listVars>>

\* handleMore that asks for the page behind that of the last URL
handleMoreAfterLastUrl(bound) ==
    /\ Mounted
    /\ Len(urls) < bound
    /\ ~stories.isLoading
    /\ handleSearch(extractSearchTerm(urls[Len(urls)]),
                    ResponseTo(urls[Len(urls)]).page + 1)
    /\ UNCHANGED <<hookVars, searchTerm, dismissals, trace, run, call, listVars>>

\* The More button is rendered only while isLoading is false.
handleMore(bound) ==
    /\ Mounted
    /\ Len(urls) < bound
    /\ ~stories.isLoading
    /\ handleSearch(extractSearchTerm(urls[Len(urls)]), stories.page + 1)
    /\ UNCHANGED <<hookVars, searchTerm, dismissals, trace, run, call, listVars>>

\* The Dismiss button of one row of the list.
handleRemoveStory ==
    \E i \in 1..Len(stories.data) :
        /\ Mounted
        /\ dismissals < MaxDismissals
        /\ dismissals' = dismissals + 1
        /\ dispatchStories(RemoveAction(stories.data[i]))
        /\ UNCHANGED <<hookVars, urls, lastSearches, searchTerm, requests, trace, run, call, listVars>>

\* The FETCH_SUCCESS action of request i: handleFetchStories read lastUrl,
\* the last URL at the time the request was sent, which is urls[i].
ResponseActionOfLastUrl(i) ==
    FetchSuccessAction(ResponseTo(urls[Len(urls)]).hits, ResponseTo(urls[Len(urls)]).page)

ResponseAction(i) ==
    FetchSuccessAction(ResponseTo(urls[i]).hits, ResponseTo(urls[i]).page)

\* axios.get of request i resolves: handleFetchStories goes on behind its
\* await and dispatches FETCH_SUCCESS.
RequestResolvesAt(i) ==
    /\ i \in 1..Len(requests)
    /\ requests[i] = "pending"
    /\ requests' = [requests EXCEPT ![i] = "succeeded"]
    /\ dispatchStories(ResponseAction(i))
    /\ UNCHANGED <<hookVars, urls, lastSearches, searchTerm, dismissals, trace, run, call, listVars>>

RequestResolves == \E i \in 1..Len(requests) : RequestResolvesAt(i)

\* axios.get of request i rejects: the catch block dispatches FETCH_FAILURE.
RequestRejectsAt(i) ==
    /\ i \in 1..Len(requests)
    /\ requests[i] = "pending"
    /\ requests' = [requests EXCEPT ![i] = "failed"]
    /\ dispatchStories(FetchFailureAction)
    /\ UNCHANGED <<hookVars, urls, lastSearches, searchTerm, dismissals, trace, run, call, listVars>>

RequestRejects == \E i \in 1..Len(requests) : RequestRejectsAt(i)

Next ==
    \/ Mount
    \/ handleSearchInput
    \/ handleSearchSubmit(MaxUrls)
    \/ handleLastSearch(MaxUrls)
    \/ handleMore(MaxUrls)
    \/ handleRemoveStory
    \/ RequestResolves
    \/ RequestRejects

Spec == Init /\ [][Next]_vars

----------------------------------------------------------------------------
(* SpecPaging: the App while the user keeps the search term of the first   *)
(* render and only submits it and clicks More, over a longer history.      *)

NextPaging ==
    \/ Mount
    \/ handleSearchSubmit(MaxPagingUrls)
    \/ handleMore(MaxPagingUrls)
    \/ RequestResolves
    \/ RequestRejects

SpecPaging == Init /\ [][NextPaging]_vars

----------------------------------------------------------------------------
(* SpecReducer: storiesReducer under every sequence of the four actions    *)
(* the controller dispatches, with payloads and pages of any value.        *)

MaxData == 3
MaxPage == 1

Payloads ==
    {<<>>, <<StoryA>>, <<StoryC>>, <<StoryA, StoryB>>, <<StoryD, StoryB>>}

InitReducer ==
    /\ ReducerIdle
    /\ HookIdle
    /\ AppIdle
    /\ ListIdle
    /\ call = NoCall

ReducerFetchInit ==
    /\ Dispatch(FetchInitAction)
    /\ UNCHANGED <<hookVars, call, appVars, listVars>>

ReducerFetchSuccess ==
    \E payload \in Payloads, page \in 0..MaxPage :
        /\ Len(successData(stories, FetchSuccessAction(payload, page))) <= MaxData
        /\ Dispatch(FetchSuccessAction(payload, page))
        /\ UNCHANGED <<hookVars, call, appVars, listVars>>

ReducerFetchFailure ==
    /\ Dispatch(FetchFailureAction)
    /\ UNCHANGED <<hookVars, call, appVars, listVars>>

ReducerRemoveStory ==
    \E item \in StoryPool :
        /\ Dispatch(RemoveAction(item))
        /\ UNCHANGED <<hookVars, call, appVars, listVars>>

NextReducer ==
    \/ ReducerFetchInit
    \/ ReducerFetchSuccess
    \/ ReducerFetchFailure
    \/ ReducerRemoveStory

SpecReducer == InitReducer /\ [][NextReducer]_vars

----------------------------------------------------------------------------
(* SpecUrl: getUrl and extractSearchTerm applied to every search term and  *)
(* page of a bounded set.                                                  *)

MaxTermLen == 2
MaxUrlPage == 10

TermChars == {"a", "?", "&", "="}

RECURSIVE StringsUpTo(_, _)
StringsUpTo(chars, n) ==
    IF n = 0 THEN {<<>>}
    ELSE LET shorter == StringsUpTo(chars, n - 1)
         IN  shorter \cup {Append(t, c) : t \in shorter, c \in chars}

\* Terms that contain the texts of the two parameter names.
ParamTerms ==
    {PARAM_SEARCH, PARAM_PAGE, PARAM_SEARCH \o PARAM_SEARCH,
     <<"a">> \o PARAM_SEARCH, PARAM_SEARCH \o <<"a">>, PARAM_PAGE \o <<"1">>,
     <<"a">> \o PARAM_PAGE \o <<"1">> \o PARAM_SEARCH}

UrlTerms == StringsUpTo(TermChars, MaxTermLen) \cup ParamTerms

InitUrl ==
    /\ call \in [fn : {"input"}, term : UrlTerms, page : 0..MaxUrlPage]
    /\ AppIdle
    /\ ReducerIdle
    /\ HookIdle
    /\ ListIdle

ApplyGetUrl ==
    /\ call.fn = "input"
    /\ call' = [fn |-> "getUrl", term |-> call.term, page |-> call.page,
                url |-> getUrl(call.term, call.page)]
    /\ UNCHANGED <<hookVars, appVars, reducerVars, listVars>>

ApplyExtractSearchTerm ==
    /\ call.fn = "getUrl"
    /\ call' = [fn |-> "extractSearchTerm", term |-> call.term, page |-> call.page,
                url |-> call.url, result |-> extractSearchTerm(call.url)]
    /\ UNCHANGED <<hookVars, appVars, reducerVars, listVars>>

NextUrl == ApplyGetUrl \/ ApplyExtractSearchTerm

SpecUrl == InitUrl /\ [][NextUrl]_vars

----------------------------------------------------------------------------
(* SpecHistory: getLastSearches over every sequence of URLs that getUrl    *)
(* produces from a bounded set of terms and pages.                         *)

MaxHistory == 8

TermA == <<"a">>
TermB == <<"b">>

HistoryUrls == {getUrl(TermA, 0), getUrl(TermA, 1), getUrl(TermB, 0)}

InitHistory ==
    /\ urls = <<>>
    /\ lastSearches = getLastSearches(urls)
    /\ searchTerm = <<>>
    /\ requests = <<>>
    /\ dismissals = 0
    /\ call = NoCall
    /\ ReducerIdle
    /\ HookIdle
    /\ ListIdle

HistoryAppend ==
    \E url \in HistoryUrls :
        /\ Len(urls) < MaxHistory
        /\ urls' = Append(urls, url)
        /\ lastSearches' = getLastSearches(urls')
        /\ UNCHANGED <<hookVars, call, searchTerm, requests, dismissals, reducerVars, listVars>>

NextHistory == HistoryAppend

SpecHistory == InitHistory /\ [][NextHistory]_vars

----------------------------------------------------------------------------
(* SpecSort: the sorted view computed for every list of a bounded set,     *)
(* every sort key and both values of isReverse.                            *)

MaxList == 3

RECURSIVE ListsUpTo(_, _)
ListsUpTo(pool, n) ==
    IF n = 0 THEN {<<>>}
    ELSE LET shorter == ListsUpTo(pool, n - 1)
         IN  shorter \cup {Append(l, s) : l \in shorter, s \in pool}

InitSort ==
    /\ list \in ListsUpTo(StoryPool, MaxList)
    /\ sort \in [sortKey : SortKeys, isReverse : BOOLEAN]
    /\ sortedList = <<>>
    /\ call = [fn |-> "input", list |-> list]
    /\ AppIdle
    /\ ReducerIdle
    /\ HookIdle

ApplySort ==
    /\ call.fn = "input"
    /\ RenderList
    /\ call' = [fn |-> "sortedList", list |-> call.list]
    /\ UNCHANGED <<hookVars, sort, appVars, reducerVars>>

\* The sort applied to its own output: List rendered with the sorted view
\* as its list prop and the same sort state.
ApplySortAgain ==
    /\ call.fn = "sortedList"
    /\ call' = [fn |-> "sortedTwice", list |-> call.list, once |-> sortedList]
    /\ sortedList' = sortedListOf(sort, sortedList)
    /\ list' = listAfterSort(sort, sortedList)
    /\ UNCHANGED <<hookVars, sort, appVars, reducerVars>>

NextSort == ApplySort \/ ApplySortAgain

SpecSort == InitSort /\ [][NextSort]_vars

----------------------------------------------------------------------------
(* Claims about storiesReducer, checked under SpecReducer *)

\* The newest and the second newest dispatch of the trace.
Newest == trace[1]
Older == trace[2]

Count(s, seq) == Cardinality({i \in 1..Len(seq) : seq[i] = s})

\* C1: after FETCH_SUCCESS(payload, page) the state has isLoading = false,
\* isError = false and page = action.page; its data is exactly the payload
\* when page is 0 and the old data followed by the payload otherwise.  So a
\* success of page 0 followed by a success of another page leaves the two
\* payloads concatenated, and a success of page 0 leaves its payload alone
\* whatever was there before.
C1_FetchSuccess ==
    /\ (Len(trace) >= 1 /\ Newest.action.type = fetchSuccess) =>
          /\ stories.isLoading = FALSE
          /\ stories.isError = FALSE
          /\ stories.page = Newest.action.page
          /\ (Newest.action.page = 0 => stories.data = Newest.action.payload)
          /\ (Newest.action.page /= 0 =>
                 stories.data = Newest.state.data \o Newest.action.payload)
    /\ (/\ Len(trace) = 2
        /\ Older.action.type = fetchSuccess
        /\ Older.action.page = 0
        /\ Newest.action.type = fetchSuccess
        /\ Newest.action.page /= 0) =>
          stories.data = Older.action.payload \o Newest.action.payload

\* C1 witness: success(page 0, [A, B]) then success(page 1, [C]) has acted.
C1_Witness ==
    /\ Len(trace) = 2
    /\ Older.action = FetchSuccessAction(<<StoryA, StoryB>>, 0)
    /\ Newest.action = FetchSuccessAction(<<StoryC>>, 1)
    /\ stories.data = <<StoryA, StoryB, StoryC>>
    /\ stories.page = 1

\* C2: within a run of REMOVE_STORY dispatches, data holds no story whose
\* objectID is that of a removed item, and holds every story of the data the
\* run started from whose objectID is that of no removed item, as often as
\* that data did.
C2_RemoveStory ==
    /\ \A i \in 1..Len(stories.data) :
          stories.data[i].objectID \notin run.removed
    /\ \A s \in StoryPool :
          s.objectID \notin run.removed =>
              Count(s, stories.data) = Count(s, run.orig)

\* C2 witness: two removals from [A, D, B], the first matching both A and D
\* (same objectID), the second matching nothing.
C2_Witness ==
    /\ run.orig = <<StoryA, StoryD, StoryB>>
    /\ run.removed = {StoryA.objectID, StoryC.objectID}
    /\ stories.data = <<StoryB>>

\* C3: FETCH_FAILURE changes only isLoading (to false) and isError (to true);
\* after FETCH_INIT followed by FETCH_FAILURE, data and page are what they
\* were before the FETCH_INIT.
C3_FetchFailure ==
    /\ (Len(trace) >= 1 /\ Newest.action.type = fetchFailure) =>
          /\ stories.isLoading = FALSE
          /\ stories.isError = TRUE
          /\ stories.data = Newest.state.data
          /\ stories.page = Newest.state.page
    /\ (/\ Len(trace) = 2
        /\ Older.action.type = fetchInit
        /\ Newest.action.type = fetchFailure) =>
          /\ stories.isLoading = FALSE
          /\ stories.isError = TRUE
          /\ stories.data = Older.state.data
          /\ stories.page = Older.state.page

\* C3 witness: FETCH_INIT then FETCH_FAILURE on a state that holds data of a
\* page other than 0.
C3_Witness ==
    /\ Len(trace) = 2
    /\ Older.action.type = fetchInit
    /\ Newest.action.type = fetchFailure
    /\ Older.state.data /= <<>>
    /\ Older.state.page /= 0
    /\ stories.data = Older.state.data

\* C6: isLoading and isError are never both true; FETCH_INIT leaves isError
\* false, FETCH_SUCCESS and FETCH_FAILURE leave isLoading false, and
\* REMOVE_STORY leaves both flags as they were.
C6_FlagsExclusive ==
    /\ ~(stories.isLoading /\ stories.isError)
    /\ Len(trace) >= 1 =>
          /\ Newest.action.type = fetchInit => ~stories.isError
          /\ Newest.action.type \in {fetchSuccess, fetchFailure} =>
                 ~stories.isLoading
          /\ Newest.action.type = removeStory =>
                 /\ stories.isLoading = Newest.state.isLoading
                 /\ stories.isError = Newest.state.isError

\* C6 witness: FETCH_INIT dispatched on a state whose isError was true.
C6_Witness ==
    /\ Len(trace) >= 1
    /\ Newest.action.type = fetchInit
    /\ Newest.state.isError
    /\ stories.isLoading
    /\ ~stories.isError

----------------------------------------------------------------------------
(* Claims about the URL builder and the search history *)

Contains(str, c) == \E i \in 1..Len(str) : str[i] = c

\* C7: for every term that contains neither '?' nor '&' and every page,
\* extractSearchTerm(getUrl(term, page)) is the term.
C7_RoundTrip ==
    (/\ call.fn = "extractSearchTerm"
     /\ ~Contains(call.term, "?")
     /\ ~Contains(call.term, "&")) =>
        call.result = call.term

\* C7 witness: the round trip of a term that is the text 'query=' itself,
\* with a page of two digits.
C7_Witness ==
    /\ call.fn = "extractSearchTerm"
    /\ call.term = PARAM_SEARCH
    /\ call.page >= 10
    /\ call.result = PARAM_SEARCH

\* The terms of a sequence of URLs.
TermsOf(us) == [i \in 1..Len(us) |-> extractSearchTerm(us[i])]

\* A sequence with each run of consecutive equal entries collapsed to one.
RECURSIVE CollapseRuns(_)
CollapseRuns(ts) ==
    IF Len(ts) <= 1 THEN ts
    ELSE LET front == CollapseRuns(SubSeq(ts, 1, Len(ts) - 1))
         IN  IF ts[Len(ts)] = ts[Len(ts) - 1] THEN front
             ELSE Append(front, ts[Len(ts)])

\* The last six entries of a sequence without the final one.
LastSixButFinal(c) ==
    LET n == Len(c)
        first == IF n > 6 THEN n - 6 ELSE 0
    IN  [k \in 1..(n - first - 1) |-> c[first + k]]

\* The collapsed terms of the URL history.
CollapsedTerms == CollapseRuns(TermsOf(urls))

\* C8: getLastSearches(urls) is the terms of the URLs with each run of equal
\* terms collapsed, cut to the last six, without the final one; [url(a,0)]
\* gives [], [url(a,0), url(a,1), url(b,0)] gives [a], and fewer than two
\* collapsed terms give [].
C8_LastSearches ==
    LET collapsed == CollapsedTerms
    IN  /\ lastSearches = LastSixButFinal(collapsed)
        /\ urls = <<getUrl(TermA, 0)>> => lastSearches = <<>>
        /\ urls = <<getUrl(TermA, 0), getUrl(TermA, 1), getUrl(TermB, 0)>> =>
              lastSearches = <<TermA>>
        /\ Len(collapsed) < 2 => lastSearches = <<>>

\* C8 witness: eight URLs with a repeated term and seven collapsed terms, of
\* which the five before the current one are shown.
C8_Witness ==
    /\ Len(urls) = 8
    /\ Len(CollapsedTerms) = 7
    /\ Len(lastSearches) = 5
    /\ lastSearches[1] = CollapsedTerms[2]

----------------------------------------------------------------------------
(* Claims about the sort view, checked under SpecSort *)

NonIncreasing(arr, field) ==
    \A i \in 1..(Len(arr) - 1) : ~KeyLess(arr[i][field], arr[i + 1][field], field)

NonDecreasing(arr, field) ==
    \A i \in 1..(Len(arr) - 1) : ~KeyLess(arr[i + 1][field], arr[i][field], field)

IsPermutation(a, b) ==
    /\ Len(a) = Len(b)
    /\ \A s \in StoryPool : Count(s, a) = Count(s, b)

SortField(sortKey) ==
    CASE sortKey = "TITLE" -> "title"
      [] sortKey = "AUTHOR" -> "author"
      [] sortKey = "COMMENT" -> "num_comments"
      [] sortKey = "POINT" -> "points"

\* C10: the view for POINT and COMMENT is in non-increasing order of the
\* field with isReverse false and in non-decreasing order with isReverse
\* true; the view for TITLE and AUTHOR is in non-decreasing lexicographic
\* order with isReverse false and in non-increasing order with isReverse
\* true; the view for NONE with isReverse false is the list; every view is a
\* permutation of the list.
C10_SortOrder ==
    call.fn = "sortedList" =>
        /\ IsPermutation(sortedList, call.list)
        /\ (sort.sortKey \in {"POINT", "COMMENT"} /\ ~sort.isReverse) =>
              NonIncreasing(sortedList, SortField(sort.sortKey))
        /\ (sort.sortKey \in {"POINT", "COMMENT"} /\ sort.isReverse) =>
              NonDecreasing(sortedList, SortField(sort.sortKey))
        /\ (sort.sortKey \in {"TITLE", "AUTHOR"} /\ ~sort.isReverse) =>
              NonDecreasing(sortedList, SortField(sort.sortKey))
        /\ (sort.sortKey \in {"TITLE", "AUTHOR"} /\ sort.isReverse) =>
              NonIncreasing(sortedList, SortField(sort.sortKey))
        /\ (sort.sortKey = "NONE" /\ ~sort.isReverse) => sortedList = call.list

\* C10 witness: POINT with isReverse true on a list that is not in order and
\* holds two stories of equal points.
C10_Witness ==
    /\ call.fn = "sortedList"
    /\ call.list = <<StoryC, StoryA, StoryB>>
    /\ sort = [sortKey |-> "POINT", isReverse |-> TRUE]
    /\ sortedList = <<StoryA, StoryB, StoryC>>

----------------------------------------------------------------------------
(* Claims about the fetch lifecycle of App *)

\* The search term of the current (last) URL.
CurrentTerm == extractSearchTerm(urls[Len(urls)])

\* The search term of the last URL after the step.
CurrentTermAfter == extractSearchTerm(urls'[Len(urls')])

\* Request i settles in this step with a response.
Resolved(i) == requests[i] = "pending" /\ requests'[i] = "succeeded"

\* Request i settles in this step with a rejection.
Rejected(i) == requests[i] = "pending" /\ requests'[i] = "failed"

\* C4: while the search term of the current URL stays the same, the page of
\* the stories state never decreases except by the reset to 0 of a fresh
\* submit; the response to a request for page 0 sets page to 0 and replaces
\* data by its hits.
C4_PageMonotone ==
    [][/\ (CurrentTermAfter = CurrentTerm /\ stories'.page < stories.page) =>
              stories'.page = 0
       /\ \A i \in 1..Len(requests) :
              (Resolved(i) /\ RequestedPage(urls[i]) = 0) =>
                  /\ stories'.page = 0
                  /\ stories'.data = ResponseTo(urls[i]).hits]_vars

\* C5: a request superseded by a newer one is not cancelled: whenever the
\* response of any pending request arrives, last URL or not, FETCH_SUCCESS is
\* dispatched with its hits and page and overwrites the state (page, data,
\* isLoading, isError), and whenever any pending request is rejected,
\* FETCH_FAILURE is dispatched; so the response that arrives last decides
\* the state.
C5_LastArrivalWins ==
    [][\A i \in 1..Len(requests) :
          /\ Resolved(i) =>
                /\ stories'.page = ResponseTo(urls[i]).page
                /\ stories'.data =
                      IF ResponseTo(urls[i]).page = 0
                      THEN ResponseTo(urls[i]).hits
                      ELSE stories.data \o ResponseTo(urls[i]).hits
                /\ ~stories'.isLoading
                /\ ~stories'.isError
          /\ Rejected(i) =>
                /\ stories'.isError
                /\ ~stories'.isLoading
                /\ stories'.data = stories.data
                /\ stories'.page = stories.page]_vars

\* C5 witness: two requests for page 0 of different terms have both
\* succeeded and data holds the hits of the first one, whose response came
\* in after that of the request that superseded it.
C5_Witness ==
    /\ Len(urls) = 2
    /\ requests = <<"succeeded", "succeeded">>
    /\ RequestedPage(urls[1]) = 0
    /\ RequestedPage(urls[2]) = 0
    /\ RequestedTerm(urls[1]) /= RequestedTerm(urls[2])
    /\ stories.data = ResponseTo(urls[1]).hits
    /\ stories.data /= ResponseTo(urls[2]).hits

----------------------------------------------------------------------------
(* SpecList: the List component under clicks on its four sort buttons,     *)
(* from the sort state of its first render.  call records the last click:  *)
(* its key, how many clicks in a row chose that key, and the number of     *)
(* clicks so far.                                                          *)

MaxClicks == 4

\* The header row with a fifth button that selects NONE
SortButtonsWithNone == {"NONE", "TITLE", "AUTHOR", "COMMENT", "POINT"}

\* The keys of the four buttons of the header row.
SortButtons == {"TITLE", "AUTHOR", "COMMENT", "POINT"}

\* handleSort that flips isReverse whatever key was selected before
handleSortAlwaysFlips(state, sortKey) ==
    [sortKey |-> sortKey, isReverse |-> ~state.isReverse]

\* handleSort(sortKey): the state passed to setSort.
handleSort(state, sortKey) ==
    [sortKey |-> sortKey,
     isReverse |-> state.sortKey = sortKey /\ ~state.isReverse]

NoClick == [fn |-> "render", sortKey |-> "NONE", streak |-> 0, clicks |-> 0]

InitList ==
    /\ list \in ListsUpTo(StoryPool, MaxList)
    /\ sort = InitialSort
    /\ sortedList = sortedListOf(sort, list)
    /\ call = NoClick
    /\ AppIdle
    /\ ReducerIdle
    /\ HookIdle

\* A click on one sort button, and the render that follows setSort.
ClickSort ==
    \E sortKey \in SortButtons :
        /\ call.clicks < MaxClicks
        /\ sort' = handleSort(sort, sortKey)
        /\ sortedList' = sortedListOf(sort', list)
        /\ list' = listAfterSort(sort', list)
        /\ call' = [fn |-> "handleSort",
                    sortKey |-> sortKey,
                    streak |-> IF call.sortKey = sortKey THEN call.streak + 1 ELSE 1,
                    clicks |-> call.clicks + 1]
        /\ UNCHANGED <<hookVars, appVars, reducerVars>>

NextList == ClickSort

SpecList == InitList /\ [][NextList]_vars

----------------------------------------------------------------------------
(* Claims about the sort state of List, checked under SpecList *)

Even(n) == n % 2 = 0

\* C11: from {NONE, false}, every click on the key that is already selected
\* flips isReverse and every click on another key selects that key with
\* isReverse false; after n clicks in a row on one key isReverse is true
\* exactly when n is even and at least 2.
C11_SortToggle ==
    /\ [](call.fn = "handleSort" =>
            /\ sort.sortKey = call.sortKey
            /\ sort.isReverse <=> (Even(call.streak) /\ call.streak >= 2))
    /\ [][call'.clicks = call.clicks + 1 =>
            IF call'.sortKey = sort.sortKey
            THEN sort' = [sortKey |-> sort.sortKey, isReverse |-> ~sort.isReverse]
            ELSE sort' = [sortKey |-> call'.sortKey, isReverse |-> FALSE]]_vars

\* C11 witness: after two earlier clicks POINT was clicked twice in a row
\* and is reversed.
C11_Witness ==
    /\ call.fn = "handleSort"
    /\ call.clicks = 4
    /\ call.streak = 2
    /\ sort = [sortKey |-> "POINT", isReverse |-> TRUE]

----------------------------------------------------------------------------
(* Claims about the sort applied twice, checked under SpecSort *)

\* The stories of arr whose field has the value v, in the order of arr.
WithValue(arr, field, v) ==
    LET HasValue(x) == x[field] = v
    IN  SelectSeq(arr, HasValue)

FieldValues(arr, field) == {arr[i][field] : i \in 1..Len(arr)}

\* No two positions of arr hold the same value of the field.
NoTies(arr, field) ==
    \A i, j \in 1..Len(arr) : arr[i][field] = arr[j][field] => i = j

\* C12 as stated: with isReverse false the sort applied to its own output
\* yields the same ordered sequence as the first application, for every
\* sort key and every list, lists with equal values of the sorted field
\* included.
C12_SortIdempotentAllKeys ==
    (call.fn = "sortedTwice" /\ ~sort.isReverse) => sortedList = call.once

\* C12 amended: with isReverse false the sort applied to its own output
\* yields the same ordered sequence for NONE, TITLE and AUTHOR on every
\* list; for COMMENT and POINT it yields the first output with every run of
\* stories of equal field value in reverse order, which is the same
\* sequence when no two stories of the list share a value of the field.
C12_SortIdempotent ==
    (call.fn = "sortedTwice" /\ ~sort.isReverse) =>
        /\ sort.sortKey \in {"NONE", "TITLE", "AUTHOR"} => sortedList = call.once
        /\ sort.sortKey \in {"COMMENT", "POINT"} =>
              LET field == SortField(sort.sortKey)
              IN  /\ NonIncreasing(sortedList, field)
                  /\ \A v \in FieldValues(call.once, field) :
                        WithValue(sortedList, field, v) =
                            Reverse(WithValue(call.once, field, v))
                  /\ NoTies(call.list, field) => sortedList = call.once

\* C12 witness: TITLE applied twice to a list with two stories of equal
\* title that is not in order.
C12_Witness ==
    /\ call.fn = "sortedTwice"
    /\ sort = [sortKey |-> "TITLE", isReverse |-> FALSE]
    /\ call.list = <<StoryD, StoryC, StoryA>>
    /\ call.once = <<StoryC, StoryD, StoryA>>
    /\ sortedList = call.once

----------------------------------------------------------------------------
(* SpecStorage: useSemiPersistentState('search', 'React') alone, over page *)
(* loads that share one store.  call records the item the last             *)
(* initialisation read, the store it read it from and the number of        *)
(* changes of the value since then.                                        *)

MaxChanges == 4

\* The values setValue is called with.
StoredTerms == {<<>>, <<"a">>, <<"b">>, <<"a", "b">>, DefaultTerm}

\* const [value, setValue] = React.useState(localStorage.getItem(key) || initialState)
Initialised(store) ==
    /\ searchTerm = initialStateOf(getItem(store, SearchKey), DefaultTerm)
    /\ isMounted = FALSE
    /\ call = [fn |-> "init", item |-> getItem(store, SearchKey),
               store |-> store, changes |-> 0]

InitStorage ==
    /\ localStorage = EmptyStore
    /\ Initialised(localStorage)
    /\ urls = <<>>
    /\ lastSearches = <<>>
    /\ requests = <<>>
    /\ dismissals = 0
    /\ ReducerIdle
    /\ ListIdle

\* The effect of the first render.
HookMount ==
    /\ ~isMounted
    /\ persistEffect(searchTerm)
    /\ call' = [call EXCEPT !.fn = "mounted"]
    /\ UNCHANGED <<searchTerm, urls, lastSearches, requests, dismissals,
                   reducerVars, listVars>>

\* setValue(newValue), called from an event handler after the first render.
HookSetValue ==
    \E newValue \in StoredTerms :
        /\ isMounted
        /\ call.changes < MaxChanges
        /\ setSearchTerm(newValue)
        /\ call' = [call EXCEPT !.fn = "setValue",
                                !.changes = IF newValue /= searchTerm
                                            THEN call.changes + 1
                                            ELSE call.changes]
        /\ UNCHANGED <<urls, lastSearches, requests, dismissals,
                       reducerVars, listVars>>

\* The page is loaded again: a new initialisation over the same store.
Reload ==
    /\ isMounted
    /\ searchTerm' = initialStateOf(getItem(localStorage, SearchKey), DefaultTerm)
    /\ isMounted' = FALSE
    /\ call' = [fn |-> "init", item |-> getItem(localStorage, SearchKey),
                store |-> localStorage, changes |-> 0]
    /\ UNCHANGED <<localStorage, urls, lastSearches, requests, dismissals,
                   reducerVars, listVars>>

NextStorage == HookMount \/ HookSetValue \/ Reload

SpecStorage == InitStorage /\ [][NextStorage]_vars

----------------------------------------------------------------------------
(* Claims about the persistent search term, checked under SpecStorage *)

\* C13: the search term survives a reload: for every value of the term, the
\* empty string included, once it was written to the store a new
\* initialisation yields the stored value; the default is used only when
\* the key is absent from the store.
C13_TermSurvivesReload ==
    call.fn = "init" =>
        searchTerm = IF SearchKey \in DOMAIN localStorage
                     THEN localStorage[SearchKey]
                     ELSE DefaultTerm

\* C14: no write to the store happens between the initialisation and the
\* first change of the value, and after every change the store holds the
\* new value under the key, so that after one or more changes the stored
\* string is the current search term.
C14_GuardedWrites ==
    /\ call.changes = 0 => localStorage = call.store
    /\ call.changes > 0 =>
          /\ SearchKey \in DOMAIN localStorage
          /\ localStorage[SearchKey] = searchTerm

\* C14 witness: the key was absent at the initialisation and the value has
\* changed twice since; the store holds the second value.
C14_Witness ==
    /\ call.fn = "setValue"
    /\ call.store = EmptyStore
    /\ call.changes = 2
    /\ searchTerm = <<"a">>
    /\ localStorage = setItem(EmptyStore, SearchKey, <<"a">>)

----------------------------------------------------------------------------
(* SpecEffects: the App with its List, under every event of the page: the  *)
(* events of Spec and the clicks on the sort buttons, over a short URL     *)
(* history.  The list prop and the sorted view of List are derived from    *)
(* stories.data and sort at each render and are not recorded here.         *)

MaxEffectUrls == 3

\* A click on a sort button of the List rendered by App.
SelectSort ==
    \E sortKey \in SortButtons :
        /\ Mounted
        /\ sort' = handleSort(sort, sortKey)
        /\ UNCHANGED <<hookVars, appVars, reducerVars, call, list, sortedList>>

NextEffects ==
    \/ Mount
    \/ handleSearchInput
    \/ handleSearchSubmit(MaxEffectUrls)
    \/ handleLastSearch(MaxEffectUrls)
    \/ handleMore(MaxEffectUrls)
    \/ handleRemoveStory
    \/ SelectSort
    \/ RequestResolves
    \/ RequestRejects

SpecEffects == Init /\ [][NextEffects]_vars

----------------------------------------------------------------------------
(* Claims about what triggers a fetch, checked under SpecEffects *)

\* One entry is appended to the URL history in this step.
UrlAppended == Len(urls') = Len(urls) + 1

\* A request is issued in this step.
RequestIssued == Len(requests') = Len(requests) + 1

\* C15: a fetch (FETCH_INIT and one request for the last URL of the
\* history) is triggered exactly when the history gets a new last entry:
\* once for the initial URL and once for every URL appended by submit, More
\* or a history-term click; typing, dismissing a story, selecting a sort key
\* and the settling of a request trigger none.
C15_FetchOnNewUrl ==
    [][/\ RequestIssued <=> (UrlAppended \/ (requests = <<>> /\ Len(urls) = 1))
       /\ RequestIssued =>
             /\ requests' = Append(requests, "pending")
             /\ Len(requests') = Len(urls')
             /\ stories' = [stories EXCEPT !.isLoading = TRUE, !.isError = FALSE]
       /\ ~RequestIssued => Len(requests') = Len(requests)]_vars

\* C15 witness: the term of the first render was submitted again, which
\* appended a URL equal to the last one and issued a second request; a sort
\* key was selected and the search field edited without a further request.
C15_Witness ==
    /\ Len(urls) = 2
    /\ urls[1] = urls[2]
    /\ Len(requests) = 2
    /\ sort.sortKey = "TITLE"
    /\ searchTerm = <<"a">>

----------------------------------------------------------------------------
(* SpecJs: the App of the earlier, fetch()-based snapshot (src/src/App.js, *)
(* lines 448-656).  It holds one url instead of a history: here urls       *)
(* records the successive values of url and requests[i] the outcome of the *)
(* fetch issued for urls[i].  Its reducer state has no page.  A render     *)
(* that throws unmounts the App: no handler of it runs afterwards.         *)

MaxJsUrls == 3

API_ENDPOINT == API_BASE \o API_SEARCH \o <<"?">> \o PARAM_SEARCH

\* `${API_ENDPOINT}${searchTerm}`
endpointUrl(term) == API_ENDPOINT \o term

\* The value of an expression that is undefined.
Undefined == [undefined |-> TRUE]

\* storiesReducer of App.js.  Its removeStory case calls state.filter on
\* the state object, which has no such member: the call raises a TypeError.
storiesReducerJs(state, action) ==
    CASE action.type = fetchInit ->
            [state EXCEPT !.isLoading = TRUE, !.isError = FALSE]
      [] action.type = fetchSuccess ->
            [state EXCEPT !.isLoading = FALSE, !.isError = FALSE,
                          !.data = action.payload]
      [] action.type = fetchFailure ->
            [state EXCEPT !.isLoading = FALSE, !.isError = TRUE]
      [] action.type = removeStory -> Thrown
      [] OTHER -> Thrown

InitialStoriesJs == [data |-> <<>>, isLoading |-> FALSE, isError |-> FALSE]

FetchSuccessActionJs(payload) == [type |-> fetchSuccess, payload |-> payload]

\* dispatchStories(action), recorded in the trace.
DispatchJs(action) ==
    /\ stories' = storiesReducerJs(stories, action)
    /\ trace' = SubSeq(<<[state |-> stories, action |-> action]>> \o trace, 1,
                       IF Len(trace) = 0 THEN 1 ELSE 2)

\* The effect of useSemiPersistentState in App.js: no isMounted guard.
persistEffectJs(value) ==
    localStorage' = setItem(localStorage, SearchKey, value)

\* handleFetchStories up to the promise of fetch(url).
FetchStoriesJs ==
    /\ DispatchJs(FetchInitAction)
    /\ requests' = Append(requests, "pending")

\* The body of a 2xx response to fetch(url), parsed by response.json().
ResultOf(url) == [hits |-> HitsOf(RequestedTerm(url), 0)]

\* Neither the reducer nor a render has thrown.
JsRendered ==
    /\ "thrown" \notin DOMAIN stories
    /\ \A i \in 1..Len(requests) : requests[i] /= "notOkJson"

InitJs ==
    /\ localStorage = EmptyStore
    /\ isMounted = FALSE
    /\ searchTerm = initialStateOf(getItem(localStorage, SearchKey), DefaultTerm)
    /\ urls = <<endpointUrl(searchTerm)>>
    /\ lastSearches = <<>>
    /\ requests = <<>>
    /\ dismissals = 0
    /\ stories = InitialStoriesJs
    /\ trace = <<>>
    /\ run = NoRun
    /\ ListIdle
    /\ call = NoCall

\* The effects of the first render.
JsMount ==
    /\ requests = <<>>
    /\ persistEffectJs(searchTerm)
    /\ FetchStoriesJs
    /\ UNCHANGED <<isMounted, urls, lastSearches, searchTerm, dismissals, run,
                   call, listVars>>

\* What the user types into the search field of this snapshot.
JsTypedTerms == TypedTerms \cup {DefaultTerm}

JsSearchInput ==
    \E value \in JsTypedTerms :
        /\ Mounted
        /\ JsRendered
        /\ searchTerm' = value
        /\ IF value /= searchTerm
           THEN persistEffectJs(value)
           ELSE UNCHANGED localStorage
        /\ UNCHANGED <<isMounted, urls, lastSearches, requests, dismissals,
                       reducerVars, call, listVars>>

\* setUrl(`${API_ENDPOINT}${searchTerm}`): the effect runs when url changed.
\* The button is disabled while the search term is empty.
JsSearchSubmit ==
    /\ Mounted
    /\ JsRendered
    /\ searchTerm /= <<>>
    /\ Len(urls) < MaxJsUrls
    /\ endpointUrl(searchTerm) /= urls[Len(urls)]
    /\ urls' = Append(urls, endpointUrl(searchTerm))
    /\ FetchStoriesJs
    /\ UNCHANGED <<hookVars, lastSearches, searchTerm, dismissals, run, call,
                   listVars>>

\* The Dismiss button of one row; the list is rendered while isLoading is
\* false.
JsRemoveStory ==
    /\ Mounted
    /\ JsRendered
    /\ ~stories.isLoading
    /\ \E i \in 1..Len(stories.data) :
          DispatchJs(RemoveAction(stories.data[i]))
    /\ UNCHANGED <<hookVars, appVars, run, call, listVars>>

\* fetch(url) is fulfilled with a 2xx response: response.json() yields the
\* result and FETCH_SUCCESS is dispatched with result.hits.
JsFetchOk ==
    \E i \in 1..Len(requests) :
        /\ JsRendered
        /\ requests[i] = "pending"
        /\ requests' = [requests EXCEPT ![i] = "ok"]
        /\ DispatchJs(FetchSuccessActionJs(ResultOf(urls[i]).hits))
        /\ UNCHANGED <<hookVars, urls, lastSearches, searchTerm, dismissals, run,
                       call, listVars>>

\* fetch(url) is fulfilled with a response that is not 2xx: fetch does not
\* reject.  A body that is JSON (an error object, without hits) is parsed
\* and FETCH_SUCCESS is dispatched with result.hits, which is undefined; the
\* render of List that follows calls list.map on undefined and throws.
\* response.json() rejects on any other body and the catch dispatches
\* FETCH_FAILURE.
JsFetchNotOk ==
    \E i \in 1..Len(requests), bodyIsJson \in BOOLEAN :
        /\ JsRendered
        /\ requests[i] = "pending"
        /\ requests' = [requests EXCEPT
                           ![i] = IF bodyIsJson THEN "notOkJson" ELSE "notOkText"]
        /\ IF bodyIsJson
           THEN DispatchJs(FetchSuccessActionJs(Undefined))
           ELSE DispatchJs(FetchFailureAction)
        /\ UNCHANGED <<hookVars, urls, lastSearches, searchTerm, dismissals, run,
                       call, listVars>>

\* fetch(url) rejects (network failure): the catch dispatches FETCH_FAILURE.
JsFetchRejects ==
    \E i \in 1..Len(requests) :
        /\ JsRendered
        /\ requests[i] = "pending"
        /\ requests' = [requests EXCEPT ![i] = "networkError"]
        /\ DispatchJs(FetchFailureAction)
        /\ UNCHANGED <<hookVars, urls, lastSearches, searchTerm, dismissals, run,
                       call, listVars>>

NextJs ==
    \/ JsMount
    \/ JsSearchInput
    \/ JsSearchSubmit
    \/ JsRemoveStory
    \/ JsFetchOk
    \/ JsFetchNotOk
    \/ JsFetchRejects

SpecJs == InitJs /\ [][NextJs]_vars

----------------------------------------------------------------------------
(* Claims about the earlier snapshot, checked under SpecJs *)

\* Request i ends in this step in a network failure or in a response that
\* is not 2xx.
EndsUnsuccessfully(i) ==
    /\ requests[i] = "pending"
    /\ requests'[i] \in {"networkError", "notOkJson", "notOkText"}

\* C16: a request that ends in a network failure or in a non-2xx response
\* leads to the dispatch of FETCH_FAILURE and never of FETCH_SUCCESS.
C16_FailureOnNotOk ==
    [][\A i \in 1..Len(requests) :
          EndsUnsuccessfully(i) =>
              /\ trace'[1].action.type = fetchFailure
              /\ stories'.isError
              /\ ~stories'.isLoading]_vars

\* C19: the reducer raises no error for an action the controller
\* dispatches: each of FETCH_INIT, FETCH_SUCCESS, FETCH_FAILURE and
\* REMOVE_STORY applied to a reachable state returns a next state.
C19_ReducerReturns ==
    [][(trace' /= trace /\ trace'[1].action.type \in
            {fetchInit, fetchSuccess, fetchFailure, removeStory}) =>
          "thrown" \notin DOMAIN stories']_vars

----------------------------------------------------------------------------
(* SpecLive: the App of Spec when every request that was issued is         *)
(* eventually answered or fails, and the effect of the first render runs.  *)
(* The user's events are under no fairness: the user may stop at any time. *)

\* axios.get of request i settles in this step.
Settles(i) == RequestResolvesAt(i) \/ RequestRejectsAt(i)

EveryRequestSettles == \A i \in 1..MaxUrls : WF_vars(Settles(i))

SpecLive == Init /\ [][Next]_vars /\ WF_vars(Mount) /\ EveryRequestSettles

----------------------------------------------------------------------------
(* Claims about the settling of requests, checked under SpecLive *)

Pending(i) == i <= Len(requests) /\ requests[i] = "pending"

\* FETCH_SUCCESS or FETCH_FAILURE was dispatched for request i.
Settled(i) == i <= Len(requests) /\ requests[i] \in {"succeeded", "failed"}

\* C17: when every issued request eventually resolves or rejects, every
\* FETCH_INIT is eventually followed by the FETCH_SUCCESS or FETCH_FAILURE
\* of its own request, and after the last search the state reaches
\* isLoading = false and stays there.
C17_LoadSettles ==
    /\ \A i \in 1..MaxUrls : Pending(i) ~> Settled(i)
    /\ <>[](Mounted /\ ~stories.isLoading)

\* C17 witness: two requests were issued, one was rejected and one answered,
\* and the state is not loading.
C17_Witness ==
    /\ Len(requests) = 2
    /\ Settled(1)
    /\ Settled(2)
    /\ requests[1] /= requests[2]
    /\ ~stories.isLoading

----------------------------------------------------------------------------
(* Claims about failed fetches and the URL history, checked under Spec *)

\* The data of the step's second state is that of its first state with the
\* stories of one objectID taken out.
DataDismissed ==
    /\ dismissals' = dismissals + 1
    /\ \E i \in 1..Len(stories.data) :
          stories'.data = removeData(stories, RemoveAction(stories.data[i]))

\* C18: a failed fetch is not retried: once FETCH_FAILURE has set isError,
\* a request is issued only when the user submits, clicks More or clicks a
\* history term; until then isError stays true, isLoading false and data
\* unchanged (but for the stories the user dismisses), and isError is
\* cleared only by the FETCH_INIT of such a new request.
C18_NoRetry ==
    [][stories.isError =>
          /\ RequestIssued => UrlAppended
          /\ ~RequestIssued =>
                /\ stories'.isError
                /\ ~stories'.isLoading
                /\ stories'.data = stories.data \/ DataDismissed
          /\ ~stories'.isError =>
                /\ RequestIssued
                /\ stories'.isLoading]_vars

\* A prefix of the history: its first n entries.
IsPrefix(a, b) == Len(a) <= Len(b) /\ SubSeq(b, 1, Len(a)) = a

\* C20: the URL history is append-only: every step leaves it as it is or
\* yields the previous history followed by exactly one new URL, which every
\* submit, More and history-term click does; no entry is removed,
\* reordered or rewritten.
C20_AppendOnly ==
    [][/\ urls' /= urls => (UrlAppended /\ IsPrefix(urls, urls'))
       /\ (Mounted /\ RequestIssued) => (UrlAppended /\ IsPrefix(urls, urls'))]_vars

\* C20 witness: a history of three URLs, built by a submit of a typed term
\* and a click on More.
C20_Witness ==
    /\ Len(urls) = 3
    /\ RequestedTerm(urls[1]) = DefaultTerm
    /\ RequestedTerm(urls[2]) = <<"a">>
    /\ RequestedTerm(urls[3]) = <<"a">>
    /\ RequestedPage(urls[3]) = 1

----------------------------------------------------------------------------
(* Frame of FETCH_INIT and REMOVE_STORY, checked under SpecReducer *)

\* C21: FETCH_INIT dispatched in any state leaves isLoading = true and
\* isError = false, and data and page exactly as they were before.
C21_FetchInitFrame ==
    (Len(trace) >= 1 /\ Newest.action.type = fetchInit) =>
        /\ stories.isLoading = TRUE
        /\ stories.isError = FALSE
        /\ stories.data = Newest.state.data
        /\ stories.page = Newest.state.page

\* C21 witness: FETCH_INIT dispatched on a failed state that holds stories of
\* a page other than 0.
C21_Witness ==
    /\ Len(trace) >= 1
    /\ Newest.action.type = fetchInit
    /\ Newest.state.isError
    /\ ~Newest.state.isLoading
    /\ Newest.state.page /= 0
    /\ Newest.state.data = <<StoryA, StoryB, StoryC>>
    /\ stories.data = <<StoryA, StoryB, StoryC>>
    /\ stories.page = Newest.state.page

\* The positions of arr that hold a story whose objectID is not id.
KeptPositions(arr, id) == {i \in 1..Len(arr) : arr[i].objectID /= id}

\* TRUE iff sub lists the entries of arr at the positions of keep, in the
\* order of arr.
IsOrderedSelection(sub, arr, keep) ==
    /\ Len(sub) = Cardinality(keep)
    /\ \E pos \in [1..Len(sub) -> keep] :
          /\ \A i, j \in 1..Len(sub) : i < j => pos[i] < pos[j]
          /\ \A i \in 1..Len(sub) : sub[i] = arr[pos[i]]

\* C22: REMOVE_STORY(item) dispatched in any state leaves isLoading, isError
\* and page as they were; data holds the stories whose objectID differs from
\* the item's, in their previous relative order; when no story of data has
\* the item's objectID, data is what it was.
C22_RemoveFrame ==
    (Len(trace) >= 1 /\ Newest.action.type = removeStory) =>
        LET before == Newest.state.data
            id == Newest.action.payload.objectID
        IN /\ stories.isLoading = Newest.state.isLoading
           /\ stories.isError = Newest.state.isError
           /\ stories.page = Newest.state.page
           /\ IsOrderedSelection(stories.data, before, KeptPositions(before, id))
           /\ (\A i \in 1..Len(before) : before[i].objectID /= id) =>
                  stories.data = before

\* C22 witness: the story in the middle of [D, B, A] is dismissed while a
\* request is loading: [D, A] remains, in that order.
C22_Witness ==
    /\ Len(trace) >= 1
    /\ Newest.action = RemoveAction(StoryB)
    /\ Newest.state.data = <<StoryD, StoryB, StoryA>>
    /\ Newest.state.isLoading
    /\ Newest.state.page = 1
    /\ stories.data = <<StoryD, StoryA>>

\* C22 witness of the second case: an item that is not in data is dismissed.
C22_WitnessAbsent ==
    /\ Len(trace) >= 1
    /\ Newest.action = RemoveAction(StoryC)
    /\ Newest.state.data = <<StoryA, StoryB>>
    /\ stories.data = <<StoryA, StoryB>>

----------------------------------------------------------------------------
(* SpecTracker: the App over a history long enough for the window of the   *)
(* search history to cut entries off.  The user types, submits, clicks     *)
(* More and clicks the terms of the history, each time after the response  *)
(* to the previous request has arrived; every request succeeds.            *)

MaxTrackUrls == 7

\* No request is in flight.
Quiet == \A i \in 1..Len(requests) : requests[i] /= "pending"

\* The handlers, called by a user who waits for the pending request.
QuietInput == Quiet /\ handleSearchInput
QuietSubmit(bound) == Quiet /\ handleSearchSubmit(bound)
QuietLastSearch(bound) == Quiet /\ handleLastSearch(bound)
QuietMore(bound) == Quiet /\ handleMore(bound)

NextTracker ==
    \/ Mount
    \/ QuietInput
    \/ QuietSubmit(MaxTrackUrls)
    \/ QuietLastSearch(MaxTrackUrls)
    \/ QuietMore(MaxTrackUrls)
    \/ RequestResolves

SpecTracker == Init /\ [][NextTracker]_vars

\* The position in ts at which the run of equal terms that ends ts starts.
RECURSIVE LastRunStart(_)
LastRunStart(ts) ==
    IF Len(ts) <= 1 THEN Len(ts)
    ELSE IF ts[Len(ts) - 1] /= ts[Len(ts)] THEN Len(ts)
    ELSE LastRunStart(SubSeq(ts, 1, Len(ts) - 1))

\* TRUE iff shown lists entries of ts at increasing positions.
RECURSIVE InSearchOrder(_, _)
InSearchOrder(shown, ts) ==
    IF shown = <<>> THEN TRUE
    ELSE IF ts = <<>> THEN FALSE
    ELSE IF Head(shown) = Head(ts) THEN InSearchOrder(Tail(shown), Tail(ts))
    ELSE InSearchOrder(shown, Tail(ts))

\* TRUE iff tail is what c ends with.
IsSuffix(tail, c) ==
    /\ Len(tail) <= Len(c)
    /\ \A i \in 1..Len(tail) : tail[i] = c[Len(c) - Len(tail) + i]

\* C23: after any sequence of submits, More clicks and clicks on history
\* terms the displayed history has at most 5 entries, no two adjacent
\* entries of it are equal, its entries are terms of the URLs before the
\* run of the current term, in the order they were searched, and followed
\* by the term of the last URL it is the end of the collapsed terms of the
\* URL history: all of them when there are at most six, and the last six
\* otherwise.
C23_HistoryShape ==
    LET terms == TermsOf(urls)
        collapsed == CollapsedTerms
    IN  /\ Len(lastSearches) <= 5
        /\ \A i \in 1..(Len(lastSearches) - 1) :
              lastSearches[i] /= lastSearches[i + 1]
        /\ InSearchOrder(lastSearches, SubSeq(terms, 1, LastRunStart(terms) - 1))
        /\ IsSuffix(Append(lastSearches, CurrentTerm), collapsed)
        /\ Len(lastSearches) = IF Len(collapsed) > 6 THEN 5 ELSE Len(collapsed) - 1

\* C23 witness: seven URLs, each of another term than the one before, so
\* that the first collapsed term has left the window of the history.
C23_Witness ==
    /\ Len(urls) = MaxTrackUrls
    /\ Len(CollapsedTerms) = 7
    /\ Len(lastSearches) = 5
    /\ lastSearches[1] = CollapsedTerms[2]
    /\ lastSearches[5] /= CurrentTerm

\* A history that More and a click on a history term have extended.
C23_WitnessMore ==
    /\ Len(urls) = MaxTrackUrls
    /\ Len(CollapsedTerms) = 4
    /\ Len(lastSearches) = 3
    /\ \E i \in 2..Len(urls) : RequestedPage(urls[i]) = 2

----------------------------------------------------------------------------
(* SpecMore: the App used by a user who waits for each request to settle   *)
(* before the next click; requests succeed or fail.                        *)

MaxMoreUrls == 5

NextMore ==
    \/ Mount
    \/ QuietInput
    \/ QuietSubmit(MaxMoreUrls)
    \/ QuietLastSearch(MaxMoreUrls)
    \/ QuietMore(MaxMoreUrls)
    \/ RequestResolves
    \/ RequestRejects

SpecMore == Init /\ [][NextMore]_vars

\* The page a URL asks for.
PageOf(url) == ResponseTo(url).page

\* The step appends the URL of a More click: submits and clicks on history
\* terms ask for page 0.
MoreClicked ==
    /\ Len(urls') = Len(urls) + 1
    /\ PageOf(urls'[Len(urls')]) /= 0

\* The position of the last URL of the history that asks for page 0.
LastSearchStart == CHOOSE s \in 1..Len(urls) :
    /\ PageOf(urls[s]) = 0
    /\ \A i \in (s + 1)..Len(urls) : PageOf(urls[i]) /= 0

\* The hits of the pages 0..k of a term, in order.
RECURSIVE PagesOf(_, _)
PagesOf(term, k) ==
    IF k = 0 THEN HitsOf(term, 0) ELSE PagesOf(term, k - 1) \o HitsOf(term, k)

\* C24: (1) a click on More appends the URL of the term of the last URL and
\* of the page after the state's page; (2) once a search and the k More
\* clicks after it have all succeeded, each click made after the request
\* before it settled, data is the term's pages 0..k in order and page is k;
\* (3) a More request that fails leaves page as it was, and the next click
\* on More asks for the same URL again.
C24_MorePaging ==
    /\ [][MoreClicked =>
              urls'[Len(urls')] = getUrl(CurrentTerm, stories.page + 1)]_vars
    /\ [](Mounted =>
              LET s == LastSearchStart
                  k == Len(urls) - s
              IN  (\A i \in s..Len(urls) : requests[i] = "succeeded") =>
                      /\ stories.page = k
                      /\ stories.data = PagesOf(CurrentTerm, k))
    /\ [][(\E i \in 1..Len(requests) : Rejected(i)) =>
              stories'.page = stories.page]_vars
    /\ [][(/\ MoreClicked
           /\ requests[Len(requests)] = "failed"
           /\ PageOf(urls[Len(urls)]) /= 0) =>
              urls'[Len(urls')] = urls[Len(urls)]]_vars

\* C24 witness: a term was typed and submitted and More clicked twice; the
\* second More request failed and the third click asked for its URL again;
\* all other requests succeeded.
C24_Witness ==
    /\ Len(urls) = 5
    /\ urls[2] = getUrl(<<"a">>, 0)
    /\ urls[3] = getUrl(<<"a">>, 1)
    /\ urls[4] = getUrl(<<"a">>, 2)
    /\ urls[5] = urls[4]
    /\ requests = <<"succeeded", "succeeded", "succeeded", "failed", "succeeded">>
    /\ stories.page = 2
    /\ stories.data = PagesOf(<<"a">>, 2)

----------------------------------------------------------------------------
(* Claims about responses that arrive out of order, checked under Spec     *)

\* Story s is a hit of a response that request i has delivered.
DeliveredBy(s, i) ==
    /\ requests[i] = "succeeded"
    /\ \E k \in 1..Len(ResponseTo(urls[i]).hits) : ResponseTo(urls[i]).hits[k] = s

\* C25: once every issued request has settled, every story of data was
\* delivered by a response to a request for the search term of the last
\* URL; and at no time does data hold stories delivered for two different
\* search terms.
C25_OneTermData ==
    Mounted =>
        /\ Quiet =>
              \A k \in 1..Len(stories.data) :
                  \E i \in 1..Len(requests) :
                      /\ DeliveredBy(stories.data[k], i)
                      /\ extractSearchTerm(urls[i]) = CurrentTerm
        /\ \A k, l \in 1..Len(stories.data) :
              \A i, j \in 1..Len(requests) :
                  (DeliveredBy(stories.data[k], i) /\ DeliveredBy(stories.data[l], j)) =>
                      extractSearchTerm(urls[i]) = extractSearchTerm(urls[j])

\* C26: with a service whose stories have objectIDs that differ within a
\* page and across the pages of a term (HitsOf), data never holds two
\* stories of the same objectID, whatever the user does and in whatever
\* order the responses arrive.
C26_DistinctIds ==
    \A k, l \in 1..Len(stories.data) :
        k /= l => stories.data[k].objectID /= stories.data[l].objectID

\* C27: whenever a request that was issued has not settled, isLoading is
\* true (so that the More button, which is rendered only while isLoading is
\* false, is not there to be clicked while a request is in flight).
C27_LoadingWhilePending ==
    ~Quiet => stories.isLoading

----------------------------------------------------------------------------
(* The reachable sort states of List, checked under SpecList *)

\* C28: in every sort state the clicks on the sort buttons lead to,
\* isReverse is false whenever sortKey is NONE, and no click selects NONE;
\* so reverse() is only called on an array that sortBy returned, and the
\* list prop (the data array of the reducer) is never reordered by a
\* render.
C28_NoneNeverReversed ==
    /\ [](/\ sort.sortKey = "NONE" => ~sort.isReverse
          /\ call.fn = "handleSort" => sort.sortKey /= "NONE"
          /\ sort.isReverse => SORTS(sort.sortKey, list).fresh)
    /\ [][list' = list]_vars

\* C28 witness: after the last of the clicks allowed the view is reversed
\* and shows another order than the list prop, which holds three stories.
C28_Witness ==
    /\ call.fn = "handleSort"
    /\ call.clicks = MaxClicks
    /\ sort.isReverse
    /\ Len(list) = 3
    /\ sortedList /= list
    /\ sortedList /= Reverse(list)

----------------------------------------------------------------------------
(* SpecTerms: the App when the text typed into the search field may hold a *)
(* '?'.                                                                    *)

MaxTermUrls == 3

NextTerms ==
    \/ Mount
    \/ handleSearchInputOf(AnyTerms)
    \/ handleSearchSubmit(MaxTermUrls)
    \/ handleLastSearch(MaxTermUrls)
    \/ handleMore(MaxTermUrls)
    \/ RequestResolves
    \/ RequestRejects

SpecTerms == Init /\ [][NextTerms]_vars

\* C29: no request is issued for an empty search term: the query parameter
\* of every URL of the history has a non-empty value.
C29_NoEmptyTerm ==
    \A i \in 1..Len(urls) : RequestedTerm(urls[i]) /= <<>>

====
